---- MODULE Spec2Model ----
(***************************************************************************)
(* Docky: the conversation memory of the RAG system.                       *)
(*                                                                         *)
(* ConversationManager (src/memory/conversation_manager.py) keeps the raw  *)
(* question/answer exchanges of one conversation and an accumulated        *)
(* summary of the exchanges it has evicted.  Texts are sequences of        *)
(* characters, so that slicing (question[:50]), joining and concatenation  *)
(* are computed as the Python code computes them.                          *)
(***************************************************************************)
EXTENDS Integers, Sequences, FiniteSets, TLC

VARIABLES
    max_tokens,            \* ConversationManager.max_tokens
    max_recent_exchanges,  \* ConversationManager.max_recent_exchanges
    tokenizer,             \* TokenCounter.tokenizer: None or an encoding
    conversation_history,  \* ConversationManager.conversation_history
    summary,               \* ConversationManager.summary
    added,                 \* every exchange appended since the manager was created
    passes,                \* every _create_summary call since the manager was created
    op,                    \* the operation that ran last
    raised,                \* whether that operation ended with an exception
    ret,                   \* what that operation returned
    config,                \* RAGWithMemory.config (memory_tokens, max_recent_exchanges)
    pdf_path,              \* RAGWithMemory.pdf_path
    rag_chain,             \* RAGWithMemory.rag_chain: None or a chain
    vector_store,          \* VectorStoreManager.vector_store: None or a Chroma store
    initialized,           \* VectorStoreManager.initialized
    collection_docs,       \* the chunks held by the persisted Chroma collection
    truncate_in,           \* the arguments of the last truncate_to_token_limit call
    truncate_out,          \* what that call returned
    chain_input,           \* what the last RAGWithMemory operation handed to rag_chain.invoke
    in_flight,             \* per thread: where its add_exchange call stands, and its locals
    interleaved,           \* whether a call has started while another was in progress
    chunker                \* SemanticChunker.chunk_block: its arguments and locals

\* the RAG system around the conversation manager
ragvars == <<config, pdf_path, rag_chain, vector_store, initialized, collection_docs>>

\* a TokenCounter used on its own
tcvars == <<truncate_in, truncate_out>>

\* add_exchange calls running in threads, and a SemanticChunker used on its own
sidevars == <<in_flight, interleaved, chunker>>

vars == <<max_tokens, max_recent_exchanges, tokenizer, conversation_history,
          summary, added, passes, op, raised, ret, ragvars, chain_input,
          tcvars, sidevars>>

-----------------------------------------------------------------------------
(* Bounds of the model *)

\* add_exchange calls on one manager instance
MaxAdds == 6
\* compression passes on one manager instance after which no exchange is added
MaxPasses == 2

\* characters of the longest text given to truncate_to_token_limit
MaxTruncateChars == 17
\* the largest token limit given to truncate_to_token_limit
MaxTruncateTokens == 3

\* ask_with_memory calls that reach add_exchange in one run of the system
MaxTurns == 3
\* chunks the persisted collection can hold
MaxDocs == 4

\* add_exchange calls started by the threads on one manager instance
MaxThreadAdds == 3

\* sentences of the block given to chunk_block
MaxSentences == 3
\* the largest chunk_size_tokens
MaxChunkSize == 3
\* the largest chunk_overlap_tokens
MaxOverlap == 2
\* chunks after which chunk_block is not followed further
MaxChunks == 4

-----------------------------------------------------------------------------
(* Texts *)

None == "None"

Min(a, b) == IF a < b THEN a ELSE b
Max(a, b) == IF a > b THEN a ELSE b

\* Python text[:n] for n >= 0
Take(text, n) == SubSeq(text, 1, Min(n, Len(text)))

\* Python seq[-n:] for any integer n (seq[-0:] is seq[0:], the whole sequence)
LastN(seq, n) ==
    IF n = 0 THEN seq
    ELSE IF n > 0 THEN SubSeq(seq, Max(1, Len(seq) - n + 1), Len(seq))
    ELSE SubSeq(seq, Min(Len(seq), 0 - n) + 1, Len(seq))

\* Python sep.join(parts)
RECURSIVE Join(_, _)
Join(sep, parts) ==
    IF parts = <<>> THEN <<>>
    ELSE IF Len(parts) = 1 THEN parts[1]
    ELSE parts[1] \o sep \o Join(sep, Tail(parts))

Repeat(c, n) == [i \in 1..n |-> c]

SummaryPrefix == <<"P", "r", "e", "v", "i", "o", "u", "s", " ", "c", "o", "n", "v", "e", "r", "s", "a", "t", "i", "o", "n", " ", "s", "u", "m", "m", "a", "r", "y", ":", " ">>
FallbackPrefix == <<"P", "r", "e", "v", "i", "o", "u", "s", " ", "c", "o", "n", "v", "e", "r", "s", "a", "t", "i", "o", "n", " ", "c", "o", "v", "e", "r", "e", "d", " ", "t", "o", "p", "i", "c", "s", ":", " ">>
BlankLine == <<"\n", "\n">>
CommaSpace == <<",", " ">>

\* ex['question'][:50]
TopicChars == 50
\* ex['answer'][:150]
AnswerPreviewChars == 150
\* len(text) // 4
CharsPerToken == 4

-----------------------------------------------------------------------------
(* Inputs *)

\* a 52-character question, longer than the 50 characters the fallback keeps
LongQuestion == <<"W", "h", "a", "t", " ", "d", "o", "e", "s", " ", "t", "h", "e", " ", "r", "e", "p", "o", "r", "t", " ", "c", "o", "n", "c", "l", "u", "d", "e", " ", "a", "b", "o", "u", "t", " ", "r", "e", "v", "e", "n", "u", "e", " ", "i", "n", " ", "2", "0", "2", "3", "?">>
ShortQuestion == <<"h", "i">>
ShortAnswer == <<"o", "k">>
\* with ShortQuestion: 2 + 1 + 597 = 600 characters, 150 tokens by the heuristic
LongAnswer == Repeat("a", 597)

\* datetime.now().strftime("%H:%M:%S") at two moments of the day
Morning == <<"1", "0", ":", "0", "0", ":", "0", "0">>
Evening == <<"2", "3", ":", "5", "9", ":", "5", "9">>

Source == [page |-> "1", document |-> "doc.pdf", chunk_id |-> "c1", content_preview |-> "p"]

\* the arguments of one add_exchange call and the wall clock at the call:
\* 150, 13 and 0 tokens by the heuristic
Calls ==
    { [question |-> ShortQuestion, answer |-> LongAnswer,  sources |-> None,       now |-> Evening],
      [question |-> LongQuestion,  answer |-> ShortAnswer, sources |-> <<Source>>, now |-> Morning],
      [question |-> <<>>,          answer |-> <<>>,        sources |-> <<>>,       now |-> Morning] }

\* RAGConfig values handed to the manager: the defaults, and two small budgets
Configs ==
    { [memory_tokens |-> 500, max_recent_exchanges |-> 3],
      [memory_tokens |-> 2,   max_recent_exchanges |-> 1],
      [memory_tokens |-> 0,   max_recent_exchanges |-> 0] }

\* what llm.invoke does: raises, or returns a response with some content
LLMOutcomes ==
    { [ok |-> FALSE, content |-> <<>>],
      [ok |-> TRUE,  content |-> <<>>],
      [ok |-> TRUE,  content |-> <<"T", "o", "p", "i", "c", "s", ".">>] }
NoLLMCall == [ok |-> FALSE, content |-> <<"-">>]

\* TokenCounter.__init__: tiktoken.get_encoding succeeds, or fails and leaves None
Tokenizers == {None, "cl100k_base"}

-----------------------------------------------------------------------------
(* TokenCounter *)

\* len(tokenizer.encode(text)): the encoder is tiktoken's; a byte-pair encoder
\* yields no token for no text and at most one token per character, the case
\* modelled here.
EncodedLen(text) == Len(text)

count_tokens(tok, text) ==
    IF tok # None THEN EncodedLen(text) ELSE Len(text) \div CharsPerToken

\* tokenizer.decode(tokenizer.encode(text)[:n]) for n >= 0: with one token per
\* character, the first n characters
DecodeFirstTokens(text, n) == Take(text, n)

\* the mutant of truncate_to_token_limit that keeps one token too many
truncate_to_token_limit_ExtraToken(tok, text, limit) ==
    IF count_tokens(tok, text) <= limit THEN text
    ELSE IF tok # None THEN DecodeFirstTokens(text, limit + 1)
    ELSE LET max_chars == (limit + 1) * CharsPerToken
         IN  IF Len(text) > max_chars THEN Take(text, max_chars) ELSE text

truncate_to_token_limit(tok, text, limit) ==
    IF count_tokens(tok, text) <= limit THEN text
    ELSE IF tok # None THEN DecodeFirstTokens(text, limit)
    ELSE LET max_chars == limit * CharsPerToken
         IN  IF Len(text) > max_chars THEN Take(text, max_chars) ELSE text

-----------------------------------------------------------------------------
(* ConversationManager *)

RECURSIVE SumTokens(_)
SumTokens(history) ==
    IF history = <<>> THEN 0 ELSE history[1].tokens + SumTokens(Tail(history))

NewExchange(call, tok) ==
    [timestamp |-> call.now,
     question  |-> call.question,
     answer    |-> call.answer,
     sources   |-> IF call.sources = None THEN <<>> ELSE call.sources,
     tokens    |-> count_tokens(tok, call.question \o <<" ">> \o call.answer)]

\* the mutant of Topics that lists each question whole
Topics_Untruncated(exchanges) == [i \in 1..Len(exchanges) |-> exchanges[i].question]

Topics(exchanges) == [i \in 1..Len(exchanges) |-> Take(exchanges[i].question, TopicChars)]

FallbackSummary(exchanges) == FallbackPrefix \o Join(CommaSpace, Topics(exchanges))

\* the mutant of create_summary without the try/except around llm.invoke
create_summary_Uncaught(exchanges, llm) ==
    IF llm.ok
    THEN [raised |-> FALSE, text |-> SummaryPrefix \o llm.content]
    ELSE [raised |-> TRUE, text |-> <<>>]

\* the mutant of create_summary that returns the generated text alone
create_summary_BareContent(exchanges, llm) ==
    IF llm.ok
    THEN [raised |-> FALSE, text |-> llm.content]
    ELSE [raised |-> FALSE, text |-> FallbackSummary(exchanges)]

\* _create_summary: the text it returns, or the exception it lets through
create_summary(exchanges, llm) ==
    IF llm.ok
    THEN [raised |-> FALSE, text |-> SummaryPrefix \o llm.content]
    ELSE [raised |-> FALSE, text |-> FallbackSummary(exchanges)]

\* the mutant of NeedsCompression that compresses at the budget, not above it
NeedsCompression_AtBudget(history, budget) ==
    SumTokens(history) >= budget /\ Len(history) > 1

\* the mutant of NeedsCompression without the len(...) > 1 guard
NeedsCompression_NoLengthGuard(history, budget) ==
    SumTokens(history) > budget

NeedsCompression(history, budget) ==
    SumTokens(history) > budget /\ Len(history) > 1

\* the mutant of split_point that rounds the half up
split_point_RoundUp(history) == (Len(history) + 1) \div 2

\* the mutant of split_point that halves the count less one
split_point_BelowHalf(history) == (Len(history) - 1) \div 2

split_point(history) == Len(history) \div 2

\* the mutant of to_summarize that slices from index 1, skipping the oldest
to_summarize_SkipsOldest(history) == SubSeq(history, 2, split_point(history))

to_summarize(history) == SubSeq(history, 1, split_point(history))

\* the mutant of to_keep that drops the first exchange after the split point
to_keep_DropsOldest(history) == SubSeq(history, split_point(history) + 2, Len(history))

\* the mutant of to_keep that resets the token count of what it keeps
to_keep_Recounted(history) ==
    [i \in 1..(Len(history) - split_point(history)) |->
        [history[split_point(history) + i] EXCEPT !.tokens = 0]]

\* the mutant of to_keep that retains the whole history
to_keep_KeepsAll(history) == history

to_keep(history) == SubSeq(history, split_point(history) + 1, Len(history))

\* the mutant of MergeSummary that replaces the summary
MergeSummary_Replace(old, summary_text) == summary_text

\* the mutant of MergeSummary that puts the new text first
MergeSummary_Prepend(old, summary_text) ==
    IF old # <<>> THEN summary_text \o BlankLine \o old ELSE summary_text

MergeSummary(old, summary_text) ==
    IF old # <<>> THEN old \o BlankLine \o summary_text ELSE summary_text

\* the mutant of manage_history_size that invokes the llm again after a failure
manage_history_size_Retries(history, old, budget, llm) ==
    IF NeedsCompression(history, budget)
    THEN LET made == create_summary(to_summarize(history), llm)
             call == [batch |-> to_summarize(history), llm |-> llm, text |-> made.text]
         IN  [history |-> to_keep(history),
              summary |-> MergeSummary(old, made.text),
              raised  |-> FALSE,
              calls   |-> IF llm.ok THEN <<call>> ELSE <<call, call>>]
    ELSE [history |-> history, summary |-> old, raised |-> FALSE, calls |-> <<>>]

\* _manage_history_size on the history `history` and the summary `old`:
\* one pass at most (the source has an `if`, not a loop)
manage_history_size(history, old, budget, llm) ==
    IF NeedsCompression(history, budget)
    THEN LET made == create_summary(to_summarize(history), llm)
         IN  IF made.raised
             THEN [history |-> history, summary |-> old, raised |-> TRUE,
                   calls |-> <<[batch |-> to_summarize(history), llm |-> llm, text |-> <<>>]>>]
             ELSE [history |-> to_keep(history),
                   summary |-> MergeSummary(old, made.text),
                   raised  |-> FALSE,
                   calls   |-> <<[batch |-> to_summarize(history), llm |-> llm, text |-> made.text]>>]
    ELSE [history |-> history, summary |-> old, raised |-> FALSE, calls |-> <<>>]

add_exchange(call, llm) ==
    LET exchange == NewExchange(call, tokenizer)
        appended == Append(conversation_history, exchange)
        managed  == manage_history_size(appended, summary, max_tokens, llm)
    IN  /\ Len(added) < MaxAdds
        /\ Len(passes) < MaxPasses
        /\ llm \in (IF NeedsCompression(appended, max_tokens) THEN LLMOutcomes ELSE {NoLLMCall})
        /\ conversation_history' = managed.history
        /\ summary' = managed.summary
        /\ added' = Append(added, exchange)
        /\ passes' = passes \o managed.calls
        /\ op' = "add_exchange"
        /\ raised' = managed.raised
        /\ ret' = None
        /\ UNCHANGED <<max_tokens, max_recent_exchanges, tokenizer, ragvars, chain_input,
                       tcvars, sidevars>>

AddExchange == \E call \in Calls, llm \in LLMOutcomes \cup {NoLLMCall} : add_exchange(call, llm)

RenderExchange(ex) ==
    <<"[">> \o ex.timestamp \o <<"]", " ", "H", "u", "m", "a", "n", ":", " ">>
        \o ex.question \o <<"\n">>
        \o <<"A", "s", "s", "i", "s", "t", "a", "n", "t", ":", " ">>
        \o Take(ex.answer, AnswerPreviewChars) \o <<".", ".", ".", "\n", "\n">>

RECURSIVE RenderAll(_)
RenderAll(exchanges) ==
    IF exchanges = <<>> THEN <<>>
    ELSE RenderExchange(exchanges[1]) \o RenderAll(Tail(exchanges))

RecentHeader == <<"R", "e", "c", "e", "n", "t", " ", "c", "o", "n", "v", "e", "r", "s", "a", "t", "i", "o", "n", ":", "\n">>

\* the mutant of ContextForPrompt that puts the exchanges before the summary
ContextForPrompt_HistoryFirst(history, s, recent) ==
    (IF history # <<>> THEN RecentHeader \o RenderAll(LastN(history, recent)) ELSE <<>>)
        \o (IF s # <<>> THEN s \o BlankLine ELSE <<>>)

\* the mutant of ContextForPrompt that emits the header for an empty history too
ContextForPrompt_AlwaysHeader(history, s, recent) ==
    (IF s # <<>> THEN s \o BlankLine ELSE <<>>)
        \o RecentHeader \o RenderAll(LastN(history, recent))

ContextForPrompt(history, s, recent) ==
    (IF s # <<>> THEN s \o BlankLine ELSE <<>>)
        \o (IF history # <<>> THEN RecentHeader \o RenderAll(LastN(history, recent)) ELSE <<>>)

\* the mutant of ConversationStats that counts the summary as one more exchange
ConversationStats_CountsSummary(history, s) ==
    [total_exchanges |-> Len(history) + (IF s # <<>> THEN 1 ELSE 0),
     total_tokens    |-> SumTokens(history),
     has_summary     |-> s # <<>>,
     summary_length  |-> IF s # <<>> THEN Len(s) ELSE 0]

ConversationStats(history, s) ==
    [total_exchanges |-> Len(history),
     total_tokens    |-> SumTokens(history),
     has_summary     |-> s # <<>>,
     summary_length  |-> IF s # <<>> THEN Len(s) ELSE 0]

\* the mutant of SummaryInfo whose window is always three exchanges
SummaryInfo_FixedThree(history, s, recent) ==
    [summary        |-> s,
     recent_history |-> LastN(history, 3),
     stats          |-> ConversationStats(history, s)]

SummaryInfo(history, s, recent) ==
    [summary        |-> s,
     recent_history |-> LastN(history, recent),
     stats          |-> ConversationStats(history, s)]

get_context_for_prompt ==
    /\ op' = "get_context_for_prompt"
    /\ raised' = FALSE
    /\ ret' = ContextForPrompt(conversation_history, summary, max_recent_exchanges)
    /\ UNCHANGED <<max_tokens, max_recent_exchanges, tokenizer, conversation_history,
                   summary, added, passes, ragvars, chain_input, tcvars, sidevars>>

get_conversation_stats ==
    /\ op' = "get_conversation_stats"
    /\ raised' = FALSE
    /\ ret' = ConversationStats(conversation_history, summary)
    /\ UNCHANGED <<max_tokens, max_recent_exchanges, tokenizer, conversation_history,
                   summary, added, passes, ragvars, chain_input, tcvars, sidevars>>

\* the mutant of get_summary_info that trims the history to what it returns
get_summary_info_TrimsHistory ==
    /\ op' = "get_summary_info"
    /\ raised' = FALSE
    /\ ret' = SummaryInfo(conversation_history, summary, max_recent_exchanges)
    /\ conversation_history' = LastN(conversation_history, max_recent_exchanges)
    /\ UNCHANGED <<max_tokens, max_recent_exchanges, tokenizer,
                   summary, added, passes, ragvars, chain_input, tcvars, sidevars>>

get_summary_info ==
    /\ op' = "get_summary_info"
    /\ raised' = FALSE
    /\ ret' = SummaryInfo(conversation_history, summary, max_recent_exchanges)
    /\ UNCHANGED <<max_tokens, max_recent_exchanges, tokenizer, conversation_history,
                   summary, added, passes, ragvars, chain_input, tcvars, sidevars>>

-----------------------------------------------------------------------------
(* RAGWithMemory *)

\* a new ConversationManager built from self.config
\* the mutant of clear_conversation_history that also drops the chain
clear_conversation_history_DropsChain ==
    /\ max_tokens' = config.memory_tokens
    /\ max_recent_exchanges' = config.max_recent_exchanges
    /\ tokenizer' \in Tokenizers
    /\ conversation_history' = <<>>
    /\ summary' = <<>>
    /\ added' = <<>>
    /\ passes' = <<>>
    /\ op' = "clear_conversation_history"
    /\ raised' = FALSE
    /\ ret' = None
    /\ rag_chain' = None
    /\ chain_input' = None
    /\ UNCHANGED <<config, pdf_path, vector_store, initialized, collection_docs, tcvars, sidevars>>

\* the mutant of clear_conversation_history that keeps the summary
clear_conversation_history_KeepsSummary ==
    /\ max_tokens' = config.memory_tokens
    /\ max_recent_exchanges' = config.max_recent_exchanges
    /\ tokenizer' \in Tokenizers
    /\ conversation_history' = <<>>
    /\ summary' = summary
    /\ added' = <<>>
    /\ passes' = <<>>
    /\ op' = "clear_conversation_history"
    /\ raised' = FALSE
    /\ ret' = None
    /\ chain_input' = None
    /\ UNCHANGED <<ragvars, tcvars, sidevars>>

clear_conversation_history ==
    /\ max_tokens' = config.memory_tokens
    /\ max_recent_exchanges' = config.max_recent_exchanges
    /\ tokenizer' \in Tokenizers
    /\ conversation_history' = <<>>
    /\ summary' = <<>>
    /\ added' = <<>>
    /\ passes' = <<>>
    /\ op' = "clear_conversation_history"
    /\ raised' = FALSE
    /\ ret' = None
    /\ chain_input' = None
    /\ UNCHANGED <<ragvars, tcvars, sidevars>>

-----------------------------------------------------------------------------

\* no truncate_to_token_limit call yet
NoTruncateCall == [text |-> <<>>, max_tokens |-> 0]
NoTruncateResult == [called |-> FALSE, text |-> <<>>]

\* the threads that call add_exchange on one manager
Threads == {1, 2}
\* a thread that is not inside add_exchange
NoCall == [pc |-> "idle", to_summarize |-> <<>>, to_keep |-> <<>>, summary_text |-> <<>>]
\* no chunk_block call yet
NoChunkCall == [pc |-> "idle", sent |-> <<>>, size |-> 0, overlap |-> 0, window |-> <<>>,
                window_tokens |-> 0, i |-> 0, idx |-> 0, out |-> <<>>, last |-> "none"]

\* RAGWithMemory.__init__: the components are built from the configuration,
\* the vector store manager holds no store and no chain is set up
InitSystem ==
    /\ config \in Configs
    /\ pdf_path = "doc.pdf"
    /\ rag_chain = None
    /\ vector_store = None
    /\ initialized = FALSE
    /\ max_tokens = config.memory_tokens
    /\ max_recent_exchanges = config.max_recent_exchanges
    /\ tokenizer \in Tokenizers
    /\ conversation_history = <<>>
    /\ summary = <<>>
    /\ added = <<>>
    /\ passes = <<>>
    /\ op = "__init__"
    /\ raised = FALSE
    /\ ret = None
    /\ truncate_in = NoTruncateCall
    /\ truncate_out = NoTruncateResult
    /\ chain_input = None
    /\ in_flight = [t \in Threads |-> NoCall]
    /\ interleaved = FALSE
    /\ chunker = NoChunkCall

\* the conversation manager of a system whose collection is empty
Init ==
    /\ InitSystem
    /\ collection_docs = 0

Next ==
    \/ AddExchange
    \/ get_context_for_prompt
    \/ get_conversation_stats
    \/ get_summary_info
    \/ clear_conversation_history

Spec == Init /\ [][Next]_vars

-----------------------------------------------------------------------------
(* TokenCounter.truncate_to_token_limit on its own *)

Alphabet == <<"a", "b", "c", "d", "e", "f", "g", "h", "i", "j", "k", "l", "m",
              "n", "o", "p", "q", "r", "s", "t", "u", "v", "w", "x", "y", "z">>

\* the texts handed to truncate_to_token_limit: every prefix of the alphabet
TruncateTexts == { Take(Alphabet, n) : n \in 0..MaxTruncateChars }

Truncate ==
    \E text \in TruncateTexts, limit \in 0..MaxTruncateTokens :
        /\ truncate_in' = [text |-> text, max_tokens |-> limit]
        /\ truncate_out' = [called |-> TRUE,
                            text |-> truncate_to_token_limit(tokenizer, text, limit)]
        /\ UNCHANGED <<max_tokens, max_recent_exchanges, tokenizer, conversation_history,
                       summary, added, passes, op, raised, ret, ragvars, chain_input,
                       sidevars>>

NextTruncate == Truncate

SpecTruncate == Init /\ [][NextTruncate]_vars

-----------------------------------------------------------------------------
(* RAGWithMemory with its VectorStoreManager *)

\* the splits DocumentLoader.process_pdf makes of the document
PdfChunks == 2

\* how a load_and_process_documents call goes: every step succeeds, or the
\* first step that raises
LoadOutcomes == {"ok", "init_fails", "get_fails", "info_fails", "pdf_fails", "add_fails"}

\* VectorStoreManager.is_populated, given whether vector_store.get() succeeds
is_populated(store, inited, docs, get_ok) ==
    IF store = None \/ ~inited THEN FALSE
    ELSE IF ~get_ok THEN FALSE
    ELSE docs > 0

load_and_process_documents(outcome) ==
    /\ op' = "load_and_process_documents"
    /\ IF outcome = "init_fails"
       THEN \* initialize_store: Chroma(...) raises
            /\ initialized' = FALSE
            /\ raised' = TRUE
            /\ ret' = None
            /\ UNCHANGED <<vector_store, collection_docs>>
       ELSE /\ vector_store' = "Chroma"
            /\ initialized' = TRUE
            /\ IF is_populated("Chroma", TRUE, collection_docs, outcome # "get_fails")
               THEN \* get_store_info: without a document_count the message raises
                    /\ outcome \in {"ok", "info_fails"}
                    /\ raised' = (outcome = "info_fails")
                    /\ ret' = IF outcome = "info_fails" THEN None
                              ELSE [message |-> "Loaded existing collection",
                                    chunks |-> collection_docs]
                    /\ UNCHANGED collection_docs
               ELSE /\ outcome \in {"ok", "get_fails", "pdf_fails", "add_fails"}
                    /\ IF outcome \in {"pdf_fails", "add_fails"}
                       THEN /\ raised' = TRUE
                            /\ ret' = None
                            /\ UNCHANGED collection_docs
                       ELSE /\ collection_docs + PdfChunks <= MaxDocs
                            /\ collection_docs' = collection_docs + PdfChunks
                            /\ raised' = FALSE
                            /\ ret' = [message |-> "Created new collection",
                                       chunks |-> PdfChunks]
    /\ chain_input' = None
    /\ UNCHANGED <<config, pdf_path, rag_chain, max_tokens, max_recent_exchanges, tokenizer,
                   conversation_history, summary, added, passes, tcvars, sidevars>>

LoadAndProcessDocuments == \E outcome \in LoadOutcomes : load_and_process_documents(outcome)

\* create_ok: whether RAGChainBuilder.create_rag_chain succeeds
setup_chain(create_ok) ==
    /\ op' = "setup_chain"
    /\ ret' = None
    /\ IF vector_store = None \/ ~initialized
       THEN \* get_retriever raises
            /\ raised' = TRUE
            /\ UNCHANGED rag_chain
       ELSE IF ~create_ok
       THEN /\ raised' = TRUE
            /\ UNCHANGED rag_chain
       ELSE /\ raised' = FALSE
            /\ rag_chain' = "rag_chain"
    /\ chain_input' = None
    /\ UNCHANGED <<config, pdf_path, vector_store, initialized, collection_docs, max_tokens,
                   max_recent_exchanges, tokenizer, conversation_history, summary, added,
                   passes, tcvars, sidevars>>

SetupChain == \E create_ok \in BOOLEAN : setup_chain(create_ok)

\* the mutant of ask_with_memory that records the exchange although the chain failed
ask_with_memory_RecordsFailed(call, chain_ok, llm) ==
    LET sources  == IF call.sources = None THEN <<>> ELSE call.sources
        turn     == [call EXCEPT !.sources = sources]
        exchange == NewExchange(turn, tokenizer)
        appended == Append(conversation_history, exchange)
        managed  == manage_history_size(appended, summary, max_tokens, llm)
        handed   == [input |-> call.question,
                     conversation_context |->
                         ContextForPrompt(conversation_history, summary, max_recent_exchanges)]
    IN  /\ op' = "ask_with_memory"
        /\ rag_chain # None
        /\ Len(added) < MaxTurns
        /\ llm \in (IF NeedsCompression(appended, max_tokens)
                    THEN LLMOutcomes ELSE {NoLLMCall})
        /\ chain_input' = handed
        /\ conversation_history' = managed.history
        /\ summary' = managed.summary
        /\ added' = Append(added, exchange)
        /\ passes' = passes \o managed.calls
        /\ raised' = ~chain_ok
        /\ ret' = IF ~chain_ok THEN None
                  ELSE [answer   |-> call.answer,
                        sources  |-> sources,
                        question |-> call.question,
                        conversation_stats |->
                            ConversationStats(managed.history, managed.summary)]
        /\ UNCHANGED <<max_tokens, max_recent_exchanges, tokenizer, config, pdf_path, rag_chain,
                       vector_store, initialized, collection_docs, tcvars, sidevars>>

\* the mutant of ask_with_memory that reads the context after adding the exchange
ask_with_memory_ContextAfterAdd(call, chain_ok, llm) ==
    LET sources  == IF call.sources = None THEN <<>> ELSE call.sources
        turn     == [call EXCEPT !.sources = sources]
        exchange == NewExchange(turn, tokenizer)
        appended == Append(conversation_history, exchange)
        managed  == manage_history_size(appended, summary, max_tokens, llm)
        handed   == [input |-> call.question,
                     conversation_context |->
                         ContextForPrompt(managed.history, managed.summary,
                                          max_recent_exchanges)]
    IN  /\ op' = "ask_with_memory"
        /\ rag_chain # None
        /\ chain_ok
        /\ Len(added) < MaxTurns
        /\ llm \in (IF NeedsCompression(appended, max_tokens)
                    THEN LLMOutcomes ELSE {NoLLMCall})
        /\ chain_input' = handed
        /\ conversation_history' = managed.history
        /\ summary' = managed.summary
        /\ added' = Append(added, exchange)
        /\ passes' = passes \o managed.calls
        /\ raised' = managed.raised
        /\ ret' = [answer   |-> call.answer,
                   sources  |-> sources,
                   question |-> call.question,
                   conversation_stats |->
                       ConversationStats(managed.history, managed.summary)]
        /\ UNCHANGED <<max_tokens, max_recent_exchanges, tokenizer, config, pdf_path, rag_chain,
                       vector_store, initialized, collection_docs, tcvars, sidevars>>

\* a turn's question with the chain's answer and the sources extracted from the
\* retrieved documents (always a list), and the clock: 13 and 0 tokens
TurnCalls == { call \in Calls : call.sources # None }

\* call: the question, the chain's answer and extracted sources, and the clock;
\* chain_ok: whether rag_chain.invoke returns; llm: what the summarizer's
\* llm.invoke does if a compression pass runs
ask_with_memory(call, chain_ok, llm) ==
    LET sources  == IF call.sources = None THEN <<>> ELSE call.sources
        turn     == [call EXCEPT !.sources = sources]
        exchange == NewExchange(turn, tokenizer)
        appended == Append(conversation_history, exchange)
        managed  == manage_history_size(appended, summary, max_tokens, llm)
        handed   == [input |-> call.question,
                     conversation_context |->
                         ContextForPrompt(conversation_history, summary, max_recent_exchanges)]
    IN  /\ op' = "ask_with_memory"
        /\ IF rag_chain = None \/ ~chain_ok
           THEN /\ llm = NoLLMCall
                /\ raised' = TRUE
                /\ ret' = None
                /\ chain_input' = (IF rag_chain = None THEN None ELSE handed)
                /\ UNCHANGED <<conversation_history, summary, added, passes>>
           ELSE /\ Len(added) < MaxTurns
                /\ chain_input' = handed
                /\ llm \in (IF NeedsCompression(appended, max_tokens)
                            THEN LLMOutcomes ELSE {NoLLMCall})
                /\ conversation_history' = managed.history
                /\ summary' = managed.summary
                /\ added' = Append(added, exchange)
                /\ passes' = passes \o managed.calls
                /\ raised' = managed.raised
                /\ ret' = IF managed.raised THEN None
                          ELSE [answer   |-> call.answer,
                                sources  |-> sources,
                                question |-> call.question,
                                conversation_stats |->
                                    ConversationStats(managed.history, managed.summary)]
        /\ UNCHANGED <<max_tokens, max_recent_exchanges, tokenizer, config, pdf_path, rag_chain,
                       vector_store, initialized, collection_docs, tcvars, sidevars>>

AskWithMemory ==
    \E call \in TurnCalls, chain_ok \in BOOLEAN, llm \in LLMOutcomes \cup {NoLLMCall} :
        ask_with_memory(call, chain_ok, llm)

\* call: the question, the basic chain's answer and extracted sources;
\* create_ok: whether create_rag_chain succeeds; chain_ok: whether invoke returns
ask_without_memory(call, create_ok, chain_ok) ==
    LET sources == IF call.sources = None THEN <<>> ELSE call.sources
        fails   == \/ rag_chain = None
                   \/ vector_store = None \/ ~initialized
                   \/ ~create_ok
                   \/ ~chain_ok
    IN  /\ op' = "ask_without_memory"
        /\ raised' = fails
        /\ ret' = IF fails THEN None
                  ELSE [answer |-> call.answer, sources |-> sources,
                        question |-> call.question]
        /\ chain_input' = None
        /\ UNCHANGED <<max_tokens, max_recent_exchanges, tokenizer, conversation_history,
                       summary, added, passes, ragvars, tcvars, sidevars>>

AskWithoutMemory ==
    \E call \in TurnCalls, create_ok \in BOOLEAN, chain_ok \in BOOLEAN :
        ask_without_memory(call, create_ok, chain_ok)

\* how the three deletion methods of delete_collection go
DeleteOutcomes == [chroma : BOOLEAN, rmtree : BOOLEAN, client : BOOLEAN]

\* VectorStoreManager.delete_collection: whether one of the methods deleted
\* the collection (the first and the third need a store object)
delete_success(store, how) ==
    \/ store # None /\ how.chroma
    \/ how.rmtree
    \/ store # None /\ how.client

\* the chunks of the persisted collection after delete_collection
docs_after_delete(store, docs, how) == IF delete_success(store, how) THEN 0 ELSE docs

\* the mutant of clear_vector_store that leaves the chain in place
clear_vector_store_KeepsChain(how) ==
    /\ op' = "clear_vector_store"
    /\ collection_docs' = docs_after_delete(vector_store, collection_docs, how)
    /\ vector_store' = None
    /\ initialized' = FALSE
    /\ rag_chain' = rag_chain
    /\ raised' = FALSE
    /\ ret' = None
    /\ chain_input' = None
    /\ UNCHANGED <<config, pdf_path, max_tokens, max_recent_exchanges, tokenizer,
                   conversation_history, summary, added, passes, tcvars, sidevars>>

\* delete_collection, then a new VectorStoreManager and no chain; the except
\* branch ends with the same manager and chain
clear_vector_store(how) ==
    /\ op' = "clear_vector_store"
    /\ collection_docs' = docs_after_delete(vector_store, collection_docs, how)
    /\ vector_store' = None
    /\ initialized' = FALSE
    /\ rag_chain' = None
    /\ raised' = FALSE
    /\ ret' = None
    /\ chain_input' = None
    /\ UNCHANGED <<config, pdf_path, max_tokens, max_recent_exchanges, tokenizer,
                   conversation_history, summary, added, passes, tcvars, sidevars>>

ClearVectorStore == \E how \in DeleteOutcomes : clear_vector_store(how)

\* get_ok: whether vector_store.get() succeeds
is_ready(get_ok) ==
    /\ op' = "is_ready"
    /\ raised' = FALSE
    /\ ret' = (rag_chain # None
               /\ is_populated(vector_store, initialized, collection_docs, get_ok))
    /\ chain_input' = None
    /\ UNCHANGED <<max_tokens, max_recent_exchanges, tokenizer, conversation_history,
                   summary, added, passes, ragvars, tcvars, sidevars>>

IsReady == \E get_ok \in BOOLEAN : is_ready(get_ok)

\* a new system; the persisted collection is empty or left by an earlier run
InitRag ==
    /\ InitSystem
    /\ collection_docs \in {0, PdfChunks}

NextRag ==
    \/ LoadAndProcessDocuments
    \/ SetupChain
    \/ AskWithMemory
    \/ AskWithoutMemory
    \/ clear_conversation_history
    \/ ClearVectorStore
    \/ IsReady

SpecRag == InitRag /\ [][NextRag]_vars

-----------------------------------------------------------------------------
(* ConversationManager.add_exchange called from two threads on one manager,
   statement by statement: the append, the size test with the split, the
   llm.invoke call during which the thread is suspended, and the assignments
   of summary and conversation_history *)

Digits == <<"0", "1", "2", "3", "4", "5", "6", "7", "8", "9">>

\* datetime.now().strftime("%H:%M:%S") at the n-th call: a later second each time
Clock(n) == <<"1", "0", ":", "0", "0", ":", "0", Digits[n + 1]>>

\* the arguments the threads call add_exchange with: 150 and 0 tokens by the heuristic
ThreadCalls == { call \in Calls : call.question # LongQuestion }

\* what llm.invoke does in a thread: raises, or returns some text
ThreadLLMOutcomes == { llm \in LLMOutcomes : ~llm.ok \/ llm.content # <<>> }

\* lines 19-28: the exchange is built and appended
BeginAdd(t, call) ==
    LET exchange == NewExchange([call EXCEPT !.now = Clock(Len(added) + 1)], tokenizer)
    IN  /\ in_flight[t].pc = "idle"
        /\ Len(added) < MaxThreadAdds
        /\ conversation_history' = Append(conversation_history, exchange)
        /\ added' = Append(added, exchange)
        /\ in_flight' = [in_flight EXCEPT ![t].pc = "manage"]
        /\ interleaved' = (interleaved \/ \E u \in Threads \ {t} : in_flight[u].pc # "idle")
        /\ op' = "add_exchange"
        /\ raised' = FALSE
        /\ ret' = None
        /\ UNCHANGED <<max_tokens, max_recent_exchanges, tokenizer, summary, passes, ragvars,
                       chain_input, tcvars, chunker>>

\* lines 72-80: the test, and the split of the history as it is now
CheckSize(t) ==
    /\ in_flight[t].pc = "manage"
    /\ in_flight' =
           [in_flight EXCEPT ![t] =
               IF NeedsCompression(conversation_history, max_tokens)
               THEN [pc |-> "invoke",
                     to_summarize |-> to_summarize(conversation_history),
                     to_keep |-> to_keep(conversation_history),
                     summary_text |-> <<>>]
               ELSE NoCall]
    /\ UNCHANGED <<max_tokens, max_recent_exchanges, tokenizer, conversation_history, summary,
                   added, passes, op, raised, ret, ragvars, chain_input, tcvars, interleaved,
                   chunker>>

\* line 83: _create_summary, whose llm.invoke returns or raises
InvokeLLM(t, llm) ==
    LET made == create_summary(in_flight[t].to_summarize, llm)
    IN  /\ in_flight[t].pc = "invoke"
        /\ passes' = Append(passes, [batch |-> in_flight[t].to_summarize, llm |-> llm,
                                     text |-> made.text])
        /\ in_flight' = [in_flight EXCEPT ![t] =
                             IF made.raised THEN NoCall
                             ELSE [@ EXCEPT !.pc = "merge", !.summary_text = made.text]]
        /\ raised' = made.raised
        /\ UNCHANGED <<max_tokens, max_recent_exchanges, tokenizer, conversation_history,
                       summary, added, op, ret, ragvars, chain_input, tcvars, interleaved,
                       chunker>>

\* lines 86-91: the summary is merged and the history replaced by to_keep
AssignKept(t) ==
    /\ in_flight[t].pc = "merge"
    /\ summary' = MergeSummary(summary, in_flight[t].summary_text)
    /\ conversation_history' = in_flight[t].to_keep
    /\ in_flight' = [in_flight EXCEPT ![t] = NoCall]
    /\ UNCHANGED <<max_tokens, max_recent_exchanges, tokenizer, added, passes, op, raised, ret,
                   ragvars, chain_input, tcvars, interleaved, chunker>>

NextThreads ==
    \/ \E t \in Threads, call \in ThreadCalls : BeginAdd(t, call)
    \/ \E t \in Threads : CheckSize(t)
    \/ \E t \in Threads, llm \in ThreadLLMOutcomes : InvokeLLM(t, llm)
    \/ \E t \in Threads : AssignKept(t)

SpecThreads == Init /\ [][NextThreads]_vars

-----------------------------------------------------------------------------
(* VectorStoreManager on its own *)

\* the frame of the VectorStoreManager operations
notstore == <<config, pdf_path, rag_chain, chain_input, max_tokens, max_recent_exchanges,
              tokenizer, conversation_history, summary, added, passes, tcvars, sidevars>>

\* ok: whether Chroma(...) returns
initialize_store(ok) ==
    /\ op' = "initialize_store"
    /\ IF ok
       THEN /\ vector_store' = "Chroma"
            /\ initialized' = TRUE
            /\ raised' = FALSE
            /\ ret' = "Chroma"
       ELSE /\ initialized' = FALSE
            /\ raised' = TRUE
            /\ ret' = None
            /\ UNCHANGED vector_store
    /\ UNCHANGED <<collection_docs, notstore>>

\* get_ok: whether vector_store.get() returns
store_is_populated(get_ok) ==
    /\ op' = "is_populated"
    /\ raised' = FALSE
    /\ ret' = is_populated(vector_store, initialized, collection_docs, get_ok)
    /\ UNCHANGED <<vector_store, initialized, collection_docs, notstore>>

\* ok: whether vector_store.add_documents returns
add_documents(ok) ==
    /\ op' = "add_documents"
    /\ IF vector_store = None \/ ~initialized \/ ~ok
       THEN /\ raised' = TRUE
            /\ ret' = None
            /\ UNCHANGED collection_docs
       ELSE /\ collection_docs + PdfChunks <= MaxDocs
            /\ collection_docs' = collection_docs + PdfChunks
            /\ raised' = FALSE
            /\ ret' = PdfChunks
    /\ UNCHANGED <<vector_store, initialized, notstore>>

get_retriever ==
    /\ op' = "get_retriever"
    /\ raised' = (vector_store = None \/ ~initialized)
    /\ ret' = IF vector_store = None \/ ~initialized THEN None ELSE "retriever"
    /\ UNCHANGED <<vector_store, initialized, collection_docs, notstore>>

\* ok: whether vector_store.similarity_search returns
search_similar(ok) ==
    /\ op' = "search_similar"
    /\ raised' = (vector_store = None \/ ~initialized \/ ~ok)
    /\ ret' = IF vector_store = None \/ ~initialized \/ ~ok THEN None ELSE "results"
    /\ UNCHANGED <<vector_store, initialized, collection_docs, notstore>>

\* the mutant of delete_collection that resets the manager only after a deletion
delete_collection_ResetOnSuccess(how) ==
    /\ op' = "delete_collection"
    /\ collection_docs' = docs_after_delete(vector_store, collection_docs, how)
    /\ vector_store' = IF delete_success(vector_store, how) THEN None ELSE vector_store
    /\ initialized' = IF delete_success(vector_store, how) THEN FALSE ELSE initialized
    /\ raised' = FALSE
    /\ ret' = None
    /\ UNCHANGED notstore

\* the three deletion methods, then _reset_state
delete_collection(how) ==
    /\ op' = "delete_collection"
    /\ collection_docs' = docs_after_delete(vector_store, collection_docs, how)
    /\ vector_store' = None
    /\ initialized' = FALSE
    /\ raised' = FALSE
    /\ ret' = None
    /\ UNCHANGED notstore

\* get_ok: whether reading and deleting the ids works; otherwise the
\* collection is deleted as `how` says
clear_documents(get_ok, how) ==
    /\ op' = "clear_documents"
    /\ ret' = None
    /\ IF vector_store = None \/ ~initialized
       THEN /\ raised' = TRUE
            /\ UNCHANGED <<vector_store, initialized, collection_docs>>
       ELSE IF get_ok
       THEN /\ raised' = FALSE
            /\ collection_docs' = 0
            /\ UNCHANGED <<vector_store, initialized>>
       ELSE /\ raised' = FALSE
            /\ collection_docs' = docs_after_delete(vector_store, collection_docs, how)
            /\ vector_store' = None
            /\ initialized' = FALSE
    /\ UNCHANGED notstore

\* delete_collection, then initialize_store
recreate_collection(how, ok) ==
    /\ op' = "recreate_collection"
    /\ ret' = None
    /\ collection_docs' = docs_after_delete(vector_store, collection_docs, how)
    /\ vector_store' = IF ok THEN "Chroma" ELSE None
    /\ initialized' = ok
    /\ raised' = ~ok
    /\ UNCHANGED notstore

NextStore ==
    \/ \E ok \in BOOLEAN : initialize_store(ok)
    \/ \E get_ok \in BOOLEAN : store_is_populated(get_ok)
    \/ \E ok \in BOOLEAN : add_documents(ok)
    \/ get_retriever
    \/ \E ok \in BOOLEAN : search_similar(ok)
    \/ \E how \in DeleteOutcomes : delete_collection(how)
    \/ \E get_ok \in BOOLEAN, how \in DeleteOutcomes : clear_documents(get_ok, how)
    \/ \E how \in DeleteOutcomes, ok \in BOOLEAN : recreate_collection(how, ok)

SpecStore == InitRag /\ [][NextStore]_vars

-----------------------------------------------------------------------------
(* SemanticChunker.chunk_block on its own *)

\* _estimate_tokens: max(1, int(len(text) / 4))
estimate_tokens(text) == Max(1, Len(text) \div CharsPerToken)

\* sentences of 1, 2 and 3 estimated tokens
Sentences == { Repeat("x", 3), Repeat("x", 8), Repeat("x", 12) }

\* what _sentences can return for a block: up to MaxSentences sentences
SentenceLists == UNION { [1..n -> Sentences] : n \in 0..MaxSentences }

\* the inner while loop: sentences are taken from the end of the window until
\* their tokens reach the overlap; j counts the sentences not yet looked at
RECURSIVE take_overlap(_, _, _, _, _)
take_overlap(window, j, ov, ov_tokens, overlap) ==
    IF j >= 1 /\ ov_tokens < overlap
    THEN take_overlap(window, j - 1, <<window[j]>> \o ov,
                      ov_tokens + estimate_tokens(window[j]), overlap)
    ELSE [ov |-> ov, ov_tokens |-> ov_tokens]

\* flush: the window joined by spaces becomes a chunk, unless it is empty
flush(out, doc_id, payload) ==
    LET content == Join(<<" ">>, payload)
    IN  IF content = <<>> THEN out
        ELSE Append(out, [page_content |-> content, chunk_id |-> doc_id])

\* the call: _sentences has split the block; an empty block returns at once
ChunkBlock ==
    \E sent \in SentenceLists, size \in 1..MaxChunkSize, overlap \in 0..MaxOverlap :
        /\ chunker.pc = "idle"
        /\ chunker' = [pc |-> IF sent = <<>> THEN "done" ELSE "loop",
                       sent |-> sent, size |-> size, overlap |-> overlap,
                       window |-> <<>>, window_tokens |-> 0, i |-> 0, idx |-> 0,
                       out |-> <<>>, last |-> "call"]
        /\ UNCHANGED <<max_tokens, max_recent_exchanges, tokenizer, conversation_history,
                       summary, added, passes, op, raised, ret, ragvars, chain_input,
                       tcvars, in_flight, interleaved>>

\* one iteration of `while i < len(sent)`: the sentence is consumed, or the
\* window is flushed and replaced by its overlap
ChunkIteration ==
    LET s  == chunker.sent[chunker.i + 1]
        t  == estimate_tokens(s)
        ov == take_overlap(chunker.window, Len(chunker.window), <<>>, 0, chunker.overlap)
    IN  /\ chunker.pc = "loop"
        /\ chunker.i < Len(chunker.sent)
        /\ IF chunker.window_tokens + t <= chunker.size \/ chunker.window = <<>>
           THEN chunker' = [chunker EXCEPT !.window = Append(@, s),
                                           !.window_tokens = @ + t,
                                           !.i = @ + 1,
                                           !.last = "consume"]
           ELSE /\ chunker.idx < MaxChunks
                /\ chunker' = [chunker EXCEPT !.out = flush(@, chunker.idx, chunker.window),
                                              !.idx = @ + 1,
                                              !.window = ov.ov,
                                              !.window_tokens = ov.ov_tokens,
                                              !.last = "flush"]
        /\ UNCHANGED <<max_tokens, max_recent_exchanges, tokenizer, conversation_history,
                       summary, added, passes, op, raised, ret, ragvars, chain_input,
                       tcvars, in_flight, interleaved>>

\* after the loop: the last window is flushed and out is returned
ChunkReturn ==
    /\ chunker.pc = "loop"
    /\ chunker.i >= Len(chunker.sent)
    /\ chunker' = [chunker EXCEPT
                       !.out = IF chunker.window # <<>>
                               THEN flush(@, chunker.idx, chunker.window) ELSE @,
                       !.pc = "done",
                       !.last = "return"]
    /\ UNCHANGED <<max_tokens, max_recent_exchanges, tokenizer, conversation_history,
                   summary, added, passes, op, raised, ret, ragvars, chain_input,
                   tcvars, in_flight, interleaved>>

NextChunk ==
    \/ ChunkBlock
    \/ ChunkIteration
    \/ ChunkReturn

SpecChunk == Init /\ [][NextChunk]_vars

-----------------------------------------------------------------------------
(* Vocabulary of the properties, written without the operators of the model *)

IsPrefix(s, t) == Len(s) <= Len(t) /\ [i \in 1..Len(s) |-> t[i]] = s

RECURSIVE TotalTokens(_)
TotalTokens(exchanges) ==
    IF Len(exchanges) = 0 THEN 0
    ELSE TotalTokens([i \in 1..(Len(exchanges) - 1) |-> exchanges[i]])
             + exchanges[Len(exchanges)].tokens

\* the step is an add_exchange call
IsAdd == op' = "add_exchange" /\ Len(added') = Len(added) + 1

\* the history of an add_exchange step right after the append
Appended == Append(conversation_history, added'[Len(added')])

\* the step ran a compression pass
IsPass == IsAdd /\ Len(passes') > Len(passes)

LastPass == passes[Len(passes)]

First50(question) ==
    [i \in 1..(IF Len(question) < 50 THEN Len(question) ELSE 50) |-> question[i]]

RECURSIVE ListedTopics(_)
ListedTopics(batch) ==
    IF batch = <<>> THEN <<>>
    ELSE First50(batch[1].question)
            \o (IF Len(batch) > 1 THEN <<",", " ">> \o ListedTopics(Tail(batch)) ELSE <<>>)

ExpectedFallback(batch) == FallbackPrefix \o ListedTopics(batch)

AllFailed == \A i \in 1..Len(passes) : ~passes[i].llm.ok

RECURSIVE Flatten(_)
Flatten(seqs) == IF seqs = <<>> THEN <<>> ELSE seqs[1] \o Flatten(Tail(seqs))

RECURSIVE JoinedBlocks(_)
JoinedBlocks(blocks) ==
    IF Len(blocks) = 1 THEN blocks[1]
    ELSE JoinedBlocks([i \in 1..(Len(blocks) - 1) |-> blocks[i]])
             \o <<"\n", "\n">> \o blocks[Len(blocks)]

\* every exchange added so far counts 150 tokens under the default budget of 500
Scenario150(n) ==
    /\ max_tokens = 500
    /\ Len(added) = n
    /\ \A i \in 1..n : added[i].tokens = 150

-----------------------------------------------------------------------------
C2_Step ==
    IsAdd =>
        /\ IF TotalTokens(Appended) > max_tokens /\ Len(Appended) > 1
           THEN /\ Len(passes') = Len(passes) + 1
                /\ Len(conversation_history') < Len(Appended)
           ELSE /\ passes' = passes
                /\ summary' = summary
                /\ conversation_history' = Appended
        /\ Scenario150(3)' => passes' = <<>> /\ Len(conversation_history') = 3
        /\ Scenario150(4)' => Len(passes') = 1 /\ Len(conversation_history') = 2
        /\ Scenario150(5)' => Len(conversation_history') = 3 /\ summary' # <<>>

C2_CompressionTrigger == [][C2_Step]_vars

C2_Witness ==
    /\ op = "add_exchange"
    /\ Scenario150(5)
    /\ Len(conversation_history) = 3
    /\ Len(passes) = 1
    /\ summary # <<>>

(* C3: a compression pass on n > 1 exchanges hands the oldest n \div 2
   exchanges, in order, to the summarizer in one call and retains the other
   n - n \div 2 in order; the split depends on n alone. *)
C3_Step ==
    IsPass =>
        LET n == Len(Appended)
            k == n \div 2
        IN  /\ n > 1
            /\ Len(passes') = Len(passes) + 1
            /\ passes'[Len(passes')].batch = [i \in 1..k |-> Appended[i]]
            /\ conversation_history' = [i \in 1..(n - k) |-> Appended[k + i]]

C3_OldestHalf == [][C3_Step]_vars

C3_Witness ==
    /\ op = "add_exchange"
    /\ Len(passes) = 2
    /\ Len(passes[1].batch) = 1
    /\ Len(passes[2].batch) = 2
    /\ Len(conversation_history) = 2

(* C4: add_exchange never evicts the exchange it has just added: afterwards
   the history is non-empty and ends with the new exchange; a single
   exchange above the budget stays alone, uncompressed, with no summary. *)
C4_NewestKept ==
    op = "add_exchange" =>
        /\ conversation_history # <<>>
        /\ conversation_history[Len(conversation_history)] = added[Len(added)]
        /\ (Len(added) = 1 /\ added[1].tokens > max_tokens) =>
               /\ Len(conversation_history) = 1
               /\ summary = <<>>
               /\ passes = <<>>

C4_Witness ==
    /\ op = "add_exchange"
    /\ Len(added) = 1
    /\ added[1].tokens > max_tokens
    /\ conversation_history = added

(* C5: a compression pass sets the summary to the summarizer's output when
   the summary was empty, and to old summary + "\n\n" + output otherwise. *)
C5_Step ==
    IsPass =>
        LET output == passes'[Len(passes')].text
        IN  summary' = IF summary = <<>>
                       THEN output
                       ELSE summary \o <<"\n", "\n">> \o output

C5_SummaryMerge == [][C5_Step]_vars

C5_Witness ==
    /\ Len(passes) = 2
    /\ passes[1].llm.ok
    /\ ~passes[2].llm.ok
    /\ summary = passes[1].text \o <<"\n", "\n">> \o passes[2].text

(* C6: without a reset, the summary before any call is a prefix of the
   summary after it, so its length never decreases. *)
C6_Step ==
    op' # "clear_conversation_history" =>
        /\ IsPrefix(summary, summary')
        /\ Len(summary') >= Len(summary)

C6_SummaryAppendOnly == [][C6_Step]_vars

C6_Witness ==
    /\ op = "get_summary_info"
    /\ Len(passes) = 2
    /\ Len(summary) > Len(passes[1].text)

(* C7: when the generation call of a compression pass fails, add_exchange
   still returns normally, the oldest half is evicted and the summary is
   extended with the fallback text. *)
C7_Step ==
    (IsAdd /\ TotalTokens(Appended) > max_tokens /\ Len(Appended) > 1
           /\ ~passes'[Len(passes')].llm.ok) =>
        LET n == Len(Appended)
            fallback == ExpectedFallback([i \in 1..(n \div 2) |-> Appended[i]])
        IN  /\ raised' = FALSE
            /\ Len(conversation_history') = n - n \div 2
            /\ Len(summary') >= Len(summary) + Len(fallback)
            /\ [i \in 1..Len(fallback) |->
                   summary'[Len(summary') - Len(fallback) + i]] = fallback

C7_FailureRecovered == [][C7_Step]_vars

C7_Witness ==
    /\ op = "add_exchange"
    /\ ~raised
    /\ Len(passes) = 2
    /\ AllFailed
    /\ Len(conversation_history) < Len(added)

(* C8: when generation fails, the summarizer returns "Previous conversation
   covered topics: " followed by the first 50 characters of each question of
   the batch, joined by ", " in batch order: a function of the batch alone. *)
C8_FallbackFormat ==
    \A i \in 1..Len(passes) :
        ~passes[i].llm.ok => passes[i].text = ExpectedFallback(passes[i].batch)

C8_Witness ==
    /\ Len(passes) >= 1
    /\ ~LastPass.llm.ok
    /\ Len(LastPass.batch) >= 2
    /\ \E i \in 1..Len(LastPass.batch) : Len(LastPass.batch[i].question) > 50
    /\ \E i \in 1..Len(LastPass.batch) : Len(LastPass.batch[i].question) < 50

(* C9: when every generation call fails, after k passes the summary is the k
   fallback blocks joined by "\n\n" in pass order, the blocks list the
   evicted exchanges in conversation order, and no add_exchange raised. *)
C9_FallbackBlocks ==
    AllFailed =>
        LET evicted == [i \in 1..(Len(added) - Len(conversation_history)) |-> added[i]]
            blocks  == [i \in 1..Len(passes) |-> ExpectedFallback(passes[i].batch)]
        IN  /\ Flatten([i \in 1..Len(passes) |-> passes[i].batch]) = evicted
            /\ summary =
                 IF Len(passes) = 0 THEN <<>>
                 ELSE IF Len(passes) = 1 THEN blocks[1]
                 ELSE IF Len(passes) = 2 THEN blocks[1] \o <<"\n", "\n">> \o blocks[2]
                 ELSE JoinedBlocks(blocks)
            /\ op = "add_exchange" => ~raised

C9_Witness ==
    /\ op = "add_exchange"
    /\ Len(added) = 6
    /\ Len(passes) = 2
    /\ AllFailed
    /\ ~raised
    /\ summary = ExpectedFallback(<<added[1], added[2]>>) \o <<"\n", "\n">>
                     \o ExpectedFallback(<<added[3], added[4]>>)

(* C10: every compression pass contributes non-empty text, on success and
   on failure, so has_summary is true exactly when at least one pass has
   happened since the manager was created or reset. *)
C10_HasSummaryIffPassed ==
    /\ \A i \in 1..Len(passes) : passes[i].text # <<>>
    /\ ConversationStats(conversation_history, summary).has_summary <=> Len(passes) >= 1

C10_Witness ==
    /\ Len(passes) = 1
    /\ passes[1].llm.ok
    /\ passes[1].llm.content = <<>>
    /\ ConversationStats(conversation_history, summary).has_summary

(* C11: the summarizer never gets an empty batch: in every compression pass
   the split point is at least 1 and below the history length, so the
   summarized prefix and the retained suffix are both non-empty. *)
C11_Step ==
    IsPass =>
        LET n == Len(Appended)
            batch == passes'[Len(passes')].batch
        IN  /\ batch # <<>>
            /\ 1 <= Len(batch)
            /\ Len(batch) < n
            /\ conversation_history' # <<>>
            /\ Len(batch) + Len(conversation_history') = n

C11_NonEmptyBatch == [][C11_Step]_vars

C11_Witness ==
    /\ op = "add_exchange"
    /\ Len(passes) = 1
    /\ Len(passes[1].batch) = 1
    /\ Len(conversation_history) = 1
    /\ Len(added) = 2

(* C12: the token estimator returns at least 1 for every text (in heuristic
   mode max(1, len \div 4)), so every stored exchange has token_count >= 1,
   also when question and answer are both empty. *)
C12_TokensAtLeastOne ==
    \A i \in 1..Len(conversation_history) :
        /\ conversation_history[i].tokens >= 1
        /\ tokenizer = None =>
               LET chars == Len(conversation_history[i].question) + 1
                                + Len(conversation_history[i].answer)
               IN  conversation_history[i].tokens =
                       (IF chars \div 4 > 1 THEN chars \div 4 ELSE 1)

(* C13: truncate(text, max_tokens) returns the text unchanged when it counts
   no more than max_tokens; in heuristic mode it otherwise returns the first
   max_tokens * 4 characters, so the result counts <= max_tokens and
   truncating it again with the same limit changes nothing. *)
C13_Result ==
    truncate_out.called =>
        LET text  == truncate_in.text
            limit == truncate_in.max_tokens
            out   == truncate_out.text
        IN  /\ (tokenizer = None /\ Len(text) \div 4 <= limit) => out = text
            /\ (tokenizer # None /\ EncodedLen(text) <= limit) => out = text
            /\ (tokenizer = None /\ Len(text) \div 4 > limit) =>
                   out = [i \in 1..(limit * 4) |-> text[i]]
            /\ tokenizer = None => Len(out) \div 4 <= limit

\* a call that is handed the previous result with the previous limit returns it
C13_Step ==
    /\ C13_Result'
    /\ (/\ truncate_out.called
        /\ tokenizer = None
        /\ truncate_in'.text = truncate_out.text
        /\ truncate_in'.max_tokens = truncate_in.max_tokens)
           => truncate_out'.text = truncate_out.text

C13_Truncate == [][C13_Step]_vars

C13_Witness ==
    /\ truncate_out.called
    /\ tokenizer = None
    /\ truncate_in.max_tokens = 3
    /\ Len(truncate_in.text) = 17
    /\ Len(truncate_out.text) = 12

\* the context made of the summary and the k newest retained exchanges
ContextOfLast(k) ==
    LET n == Len(conversation_history)
    IN  (IF summary # <<>> THEN summary \o <<"\n", "\n">> ELSE <<>>)
            \o (IF n > 0
                THEN RecentHeader
                         \o Flatten([i \in 1..k |-> RenderExchange(conversation_history[n - k + i])])
                ELSE <<>>)

(* C14: for every configured max_recent_exchanges, 0 included, the window of
   exchanges in the prompt context holds exactly
   min(max_recent_exchanges, retained exchanges) exchanges, never more than
   max_recent_exchanges. *)
C14_WindowBound ==
    op = "get_context_for_prompt" =>
        LET n == Len(conversation_history)
            k == IF max_recent_exchanges < n THEN max_recent_exchanges ELSE n
        IN  ret = ContextOfLast(k)

(* C15: the prompt context is the summary first (when non-empty, followed by a
   blank line), then the trailing window of the retained history, rendered
   oldest of the window first; nothing outside the window is rendered. *)
C15_ContextOrder ==
    op = "get_context_for_prompt" =>
        \E k \in 0..Len(conversation_history) :
            /\ ret = ContextOfLast(k)
            /\ max_recent_exchanges > 0 =>
                   k = (IF max_recent_exchanges < Len(conversation_history)
                        THEN max_recent_exchanges ELSE Len(conversation_history))
            /\ summary # <<>> => IsPrefix(summary \o <<"\n", "\n">>, ret)

C15_Witness ==
    /\ op = "get_context_for_prompt"
    /\ summary # <<>>
    /\ max_recent_exchanges > 0
    /\ Len(conversation_history) > max_recent_exchanges
    /\ ret = ContextOfLast(max_recent_exchanges)
    /\ ret # ContextOfLast(Len(conversation_history))

(* C16: with no exchanges and an empty summary, get_context_for_prompt returns
   the empty string, get_conversation_stats returns zeros and no summary,
   get_summary_info returns an empty summary and an empty recent history, and
   none of them raises. *)
C16_EmptyReads ==
    (conversation_history = <<>> /\ summary = <<>>) =>
        /\ op = "get_context_for_prompt" => (~raised /\ ret = <<>>)
        /\ op = "get_conversation_stats" =>
               /\ ~raised
               /\ ret = [total_exchanges |-> 0, total_tokens |-> 0,
                         has_summary |-> FALSE, summary_length |-> 0]
        /\ op = "get_summary_info" =>
               /\ ~raised
               /\ ret.summary = <<>>
               /\ ret.recent_history = <<>>

C16_Witness ==
    /\ op = "get_context_for_prompt"
    /\ conversation_history = <<>>
    /\ summary = <<>>
    /\ added = <<>>
    /\ ret = <<>>

\* the stats of the retained history and the summary
ExpectedStats ==
    [total_exchanges |-> Len(conversation_history),
     total_tokens    |-> TotalTokens(conversation_history),
     has_summary     |-> Len(summary) > 0,
     summary_length  |-> Len(summary)]

\* the k newest retained exchanges, oldest first
NewestRetained(k) ==
    [i \in 1..k |-> conversation_history[Len(conversation_history) - k + i]]

(* C17: get_conversation_stats reports the number of retained exchanges, the
   sum of their token counts, whether the summary is non-empty and the
   summary's length; once a compression has occurred total_exchanges is below
   the number of exchanges added. *)
C17_StatsOfRetained ==
    op = "get_conversation_stats" =>
        /\ ret = ExpectedStats
        /\ Len(passes) >= 1 => ret.total_exchanges < Len(added)

C17_Witness ==
    /\ op = "get_conversation_stats"
    /\ Len(passes) = 1
    /\ Len(added) = 4
    /\ ret.total_exchanges = 2
    /\ ret.has_summary

(* C18 as stated: get_summary_info returns the summary, the stats and the last
   3 retained exchanges (fewer if fewer are retained), whatever
   max_recent_exchanges is. *)
C18_LastThree ==
    op = "get_summary_info" =>
        /\ ret.summary = summary
        /\ ret.stats = ExpectedStats
        /\ ret.recent_history =
               NewestRetained(IF Len(conversation_history) < 3
                              THEN Len(conversation_history) ELSE 3)

(* C18 amended: get_summary_info returns the summary, the stats and the last
   max_recent_exchanges retained exchanges (fewer if fewer are retained; all
   of them when max_recent_exchanges is 0): the window follows the configured
   max_recent_exchanges. *)
C18_LastConfigured ==
    op = "get_summary_info" =>
        /\ ret.summary = summary
        /\ ret.stats = ExpectedStats
        /\ ret.recent_history =
               NewestRetained(IF max_recent_exchanges = 0
                                 \/ Len(conversation_history) < max_recent_exchanges
                              THEN Len(conversation_history)
                              ELSE max_recent_exchanges)

C18_Witness ==
    /\ op = "get_summary_info"
    /\ max_recent_exchanges = 1
    /\ Len(conversation_history) = 2
    /\ Len(ret.recent_history) = 1

(* C19: right after clear_conversation_history the manager is as freshly
   created: history and summary are both empty, the stats are all zero and
   the prompt context is empty. *)
C19_ResetIsFresh ==
    op = "clear_conversation_history" =>
        /\ conversation_history = <<>>
        /\ summary = <<>>
        /\ max_tokens = config.memory_tokens
        /\ max_recent_exchanges = config.max_recent_exchanges
        /\ ExpectedStats = [total_exchanges |-> 0, total_tokens |-> 0,
                            has_summary |-> FALSE, summary_length |-> 0]
        /\ ConversationStats(conversation_history, summary) = ExpectedStats
        /\ ContextForPrompt(conversation_history, summary, max_recent_exchanges) = <<>>

C19_Witness ==
    /\ op = "clear_conversation_history"
    /\ conversation_history = <<>>
    /\ summary = <<>>
    /\ max_recent_exchanges = 1

(* C20: clear_conversation_history leaves the document and index state as it
   was: the vector store manager's store and initialized flag, the persisted
   collection, the RAG chain, the PDF path and the configuration; the
   replacement manager gets the same max_tokens and max_recent_exchanges. *)
C20_Step ==
    op' = "clear_conversation_history" =>
        /\ rag_chain' = rag_chain
        /\ vector_store' = vector_store
        /\ initialized' = initialized
        /\ collection_docs' = collection_docs
        /\ pdf_path' = pdf_path
        /\ config' = config
        /\ max_tokens' = max_tokens
        /\ max_recent_exchanges' = max_recent_exchanges

C20_ResetFrame == [][C20_Step]_vars

C20_Witness ==
    /\ op = "clear_conversation_history"
    /\ rag_chain # None
    /\ vector_store # None
    /\ initialized
    /\ collection_docs > 0
    /\ conversation_history = <<>>

\* the exchanges of a sequence of exchanges
Members(exchanges) == { exchanges[i] : i \in 1..Len(exchanges) }

\* an exchange that was added is neither retained nor in any batch that was
\* handed to the summarizer
Lost(exchange) ==
    /\ exchange \notin Members(conversation_history)
    /\ \A p \in 1..Len(passes) : exchange \notin Members(passes[p].batch)

(* C21: while every add_exchange call has run with exclusive access, no
   exchange is lost: each added exchange is in the retained history or in a
   batch given to the summarizer.  (The witness is the other half: once two
   calls interleave, with one appending while the other is suspended in the
   generation call, an exchange is lost.) *)
C21_ExclusiveNoLoss ==
    ~interleaved => \A e \in Members(added) : ~Lost(e)

C21_Witness ==
    /\ interleaved
    /\ \A t \in Threads : in_flight[t].pc = "idle"
    /\ \E e \in Members(added) : Lost(e)

\* the exchanges in the window of the prompt context
WindowSize ==
    IF max_recent_exchanges = 0 \/ Len(conversation_history) < max_recent_exchanges
    THEN Len(conversation_history)
    ELSE max_recent_exchanges

(* C22: a turn of ask_with_memory that returns reads the prompt context of the
   state before the turn, hands it with the question to the chain, adds
   exactly one exchange holding the turn's question and answer, and returns
   the stats of the state after the add and any compression. *)
C22_Step ==
    (op' = "ask_with_memory" /\ ~raised') =>
        /\ chain_input'.input = ret'.question
        /\ chain_input'.conversation_context = ContextOfLast(WindowSize)
        /\ Len(added') = Len(added) + 1
        /\ added'[Len(added')].question = ret'.question
        /\ added'[Len(added')].answer = ret'.answer
        /\ added'[Len(added')].sources = ret'.sources
        /\ ret'.conversation_stats = ExpectedStats'

C22_TurnOrder == [][C22_Step]_vars

C22_Witness ==
    /\ op = "ask_with_memory"
    /\ ~raised
    /\ Len(added) = 2
    /\ Len(passes) = 1
    /\ ret.conversation_stats.has_summary
    /\ ret.conversation_stats.total_exchanges = 1
    /\ IsPrefix(RecentHeader, chain_input.conversation_context)

\* s is the tail of t
IsSuffix(s, t) ==
    /\ Len(s) <= Len(t)
    /\ \A i \in 1..Len(s) : s[i] = t[Len(t) - Len(s) + i]

\* the retained exchanges of the next state are exchanges of this state, or the
\* one being added, unaltered and in order
C23_RetainedUnaltered ==
    IF IsAdd THEN IsSuffix(conversation_history', Appended)
    ELSE IsSuffix(conversation_history', conversation_history)

\* the token count of the exchange being added is the count of
\* "question answer" taken at the call
C23_CountedAtInsertion ==
    LET e     == added'[Len(added')]
        chars == Len(e.question) + 1 + Len(e.answer)
    IN  e.tokens = (IF tokenizer = None THEN chars \div 4 ELSE chars)

(* C23 as stated: no step alters a retained exchange, the token count is taken
   at insertion, and the stored sources are the sources the caller passed. *)
C23_StepAsPassed ==
    /\ C23_RetainedUnaltered
    /\ IsAdd =>
           /\ C23_CountedAtInsertion
           /\ \E call \in Calls :
                  /\ added'[Len(added')].question = call.question
                  /\ added'[Len(added')].answer = call.answer
                  /\ added'[Len(added')].timestamp = call.now
                  /\ added'[Len(added')].sources = call.sources

C23_SourcesAsPassed == [][C23_StepAsPassed]_vars

(* C23 amended: no step alters a retained exchange, the token count is taken
   at insertion, and the stored sources are the sources the caller passed,
   except that None (sources omitted) is stored as the empty list. *)
C23_StepNoneAsEmpty ==
    /\ C23_RetainedUnaltered
    /\ IsAdd =>
           /\ C23_CountedAtInsertion
           /\ \E call \in Calls :
                  /\ added'[Len(added')].question = call.question
                  /\ added'[Len(added')].answer = call.answer
                  /\ added'[Len(added')].timestamp = call.now
                  /\ call.sources # None => added'[Len(added')].sources = call.sources
                  /\ call.sources = None => added'[Len(added')].sources = <<>>

C23_Immutable == [][C23_StepNoneAsEmpty]_vars

C23_Witness ==
    /\ op = "add_exchange"
    /\ Len(passes) >= 1
    /\ Len(conversation_history) >= 2
    /\ conversation_history[1].answer = LongAnswer
    /\ conversation_history[1].sources = <<>>
    /\ conversation_history[1].tokens = 150
    /\ tokenizer = None

(* C24: get_context_for_prompt, get_conversation_stats and get_summary_info
   leave the history and the summary as they were and run no compression
   pass and no generation call. *)
C24_Step ==
    op' \in {"get_context_for_prompt", "get_conversation_stats", "get_summary_info"} =>
        /\ conversation_history' = conversation_history
        /\ summary' = summary
        /\ passes' = passes
        /\ added' = added

C24_ReadsAreReadOnly == [][C24_Step]_vars

C24_Witness ==
    /\ op = "get_summary_info"
    /\ Len(conversation_history) = 2
    /\ max_recent_exchanges = 1
    /\ summary # <<>>
    /\ Len(passes) = 1
    /\ Len(ret.recent_history) = 1

\* the step's add_exchange has to compress
C25_MustCompress == IsAdd /\ TotalTokens(Appended) > max_tokens /\ Len(Appended) > 1

(* C25: llm.invoke is called exactly once in a compression pass and in no
   other step; when that call fails there is no second call and the pass
   completes with the fallback text. *)
C25_Step ==
    /\ C25_MustCompress => Len(passes') = Len(passes) + 1
    /\ (IsAdd /\ ~C25_MustCompress) => passes' = passes
    /\ ~IsAdd => (passes' = passes \/ passes' = <<>>)
    /\ (C25_MustCompress /\ ~passes'[Len(passes')].llm.ok) =>
           /\ passes'[Len(passes')].text = ExpectedFallback(passes'[Len(passes')].batch)
           /\ IsSuffix(passes'[Len(passes')].text, summary')
           /\ Len(conversation_history') < Len(Appended)

C25_OneCallPerPass == [][C25_Step]_vars

C25_Witness ==
    /\ op = "add_exchange"
    /\ Len(passes) = 2
    /\ ~passes[1].llm.ok
    /\ passes[2].llm.ok
    /\ IsPrefix(ExpectedFallback(passes[1].batch), summary)

\* the batches handed to _create_summary, concatenated in pass order
Summarized == Flatten([p \in 1..Len(passes) |-> passes[p].batch])

(* C26: the exchanges added since creation or reset are exactly the batches
   handed to the summarizer, in pass order, followed by the retained history:
   the history is a suffix of what was added, the batches are the
   complementary prefix, and no exchange is dropped, summarized twice, or both
   summarized and retained. *)
C26_Conservation ==
    /\ added = Summarized \o conversation_history
    /\ IsSuffix(conversation_history, added)
    /\ IsPrefix(Summarized, added)
    /\ Len(Summarized) + Len(conversation_history) = Len(added)

C26_Witness ==
    /\ Len(passes) = 2
    /\ Len(added) = 5
    /\ Len(Summarized) = 3
    /\ Len(conversation_history) = 2

\* the step leaves the conversation memory as it was
MemoryUnchanged ==
    /\ conversation_history' = conversation_history
    /\ summary' = summary
    /\ added' = added
    /\ passes' = passes
    /\ max_tokens' = max_tokens
    /\ max_recent_exchanges' = max_recent_exchanges

(* C27: an ask_with_memory call made before setup_chain fails, and a failed
   ask_with_memory call (no chain, or the chain raises) adds no exchange, runs
   no compression and leaves the summary as it was; ask_without_memory leaves
   the conversation memory as it was whether it returns or fails. *)
C27_Step ==
    /\ (op' = "ask_with_memory" /\ rag_chain = None) => raised'
    /\ (op' = "ask_with_memory" /\ raised') => MemoryUnchanged
    /\ op' = "ask_without_memory" => MemoryUnchanged
    /\ (op' = "ask_without_memory" /\ rag_chain = None) => raised'

C27_FailedAskKeepsMemory == [][C27_Step]_vars

C27_Witness ==
    /\ op = "ask_with_memory"
    /\ raised
    /\ rag_chain # None
    /\ Len(added) >= 2
    /\ Len(conversation_history) >= 1
    /\ summary # <<>>

(* C30: clear_vector_store returns normally, whether or not the deletion
   worked, with no chain and a new uninitialized vector store manager, and
   does not touch the conversation memory; from then on is_ready is false and
   both asks fail, until load_and_process_documents initializes the store and
   setup_chain builds the chain again. *)
C30_Step ==
    /\ op' = "clear_vector_store" =>
           /\ ~raised'
           /\ rag_chain' = None
           /\ vector_store' = None
           /\ ~initialized'
           /\ MemoryUnchanged
    /\ (rag_chain = None /\ op' \in {"ask_with_memory", "ask_without_memory"}) => raised'
    /\ (rag_chain = None /\ op' = "is_ready") => ret' = FALSE
    /\ (rag_chain = None /\ rag_chain' # None) => (op' = "setup_chain" /\ initialized)
    /\ (~initialized /\ initialized') => op' = "load_and_process_documents"

C30_ClearInvalidates == [][C30_Step]_vars

C30_Witness ==
    /\ op = "clear_vector_store"
    /\ rag_chain = None
    /\ vector_store = None
    /\ ~initialized
    /\ collection_docs > 0
    /\ Len(conversation_history) >= 1
    /\ summary # <<>>

\* the manager holds no usable store
C29_NotInitialized == vector_store = None \/ ~initialized

(* C29: initialized is true only while a store object is held;
   delete_collection always ends with vector_store None and initialized
   false, whatever its deletion methods did; while the manager is not
   initialized is_populated returns false and add_documents, get_retriever and
   search_similar raise, and only a successful initialize_store makes it
   initialized again. *)
C29_Step ==
    /\ initialized' => vector_store' # None
    /\ op' = "delete_collection" => (vector_store' = None /\ ~initialized' /\ ~raised')
    /\ (C29_NotInitialized /\ op' = "is_populated") => ret' = FALSE
    /\ (C29_NotInitialized /\ op' \in {"add_documents", "get_retriever", "search_similar"})
           => raised'
    /\ (~initialized /\ initialized')
           => (op' \in {"initialize_store", "recreate_collection"} /\ ~raised')

C29_ResetAfterDelete == [][C29_Step]_vars

C29_Witness ==
    /\ op = "delete_collection"
    /\ vector_store = None
    /\ ~initialized
    /\ collection_docs > 0

\* the estimated tokens of the sentences of a window
RECURSIVE WindowTokens(_)
WindowTokens(window) ==
    IF window = <<>> THEN 0
    ELSE LET n == Len(window[1]) \div 4
         IN  (IF n > 1 THEN n ELSE 1) + WindowTokens(Tail(window))

(* C28: chunk_block terminates for chunk_size_tokens > 0 and
   chunk_overlap_tokens >= 0, because an iteration that flushes leaves a
   window after which the next sentence can be consumed: the window is empty
   or the sentence fits next to it, so the same window is not flushed again. *)
C28_FlushThenConsume ==
    (chunker.pc = "loop" /\ chunker.last = "flush" /\ chunker.i < Len(chunker.sent)) =>
        \/ chunker.window = <<>>
        \/ WindowTokens(chunker.window)
               + WindowTokens(<<chunker.sent[chunker.i + 1]>>) <= chunker.size

====
